---- MODULE Spec2Model ----
(***************************************************************************)
(* A model of skydoc/common.py: the docstring parser (parse_docstring with *)
(* its two section scanners) and the rename validation (validate_renames   *)
(* with replace_extension).                                                *)
(*                                                                         *)
(* A Python string is a sequence of one-character strings; a list of lines *)
(* is a sequence of such sequences.  List and string indices are kept      *)
(* 0-based as in the source: element k of a list xs is xs[k + 1].          *)
(***************************************************************************)
EXTENDS Integers, Sequences, FiniteSets, TLC

\* ------------------------------------------------------------ bounds

\* Longest docstring, in lines, that Init enumerates exhaustively.
MaxLines == 4

\* Longest bzl_files list handed to validate_renames.
MaxFiles == 3

\* ------------------------------------------------------------ strings

NL == "\n"

\* The characters str.strip() / str.lstrip() and the regex class \s remove.
Whitespace == {" ", NL}

\* The regex class \w.
WordChars ==
  {"a","b","c","d","e","f","g","h","i","j","k","l","m","n","o","p","q","r",
   "s","t","u","v","w","x","y","z","A","B","C","D","E","F","G","H","I","J",
   "K","L","M","N","O","P","Q","R","S","T","U","V","W","X","Y","Z","0","1",
   "2","3","4","5","6","7","8","9","_"}

\* The backquote character (a string literal of the module cannot hold it).
BACKQUOTE == "backquote"

\* The regex class of the field pattern: \w, backquote, braces, percent, dot.
NameChars == WordChars \cup {BACKQUOTE, "{", "}", "%", "."}

Drop(s, n) == SubSeq(s, n + 1, Len(s))

Take(s, n) == SubSeq(s, 1, n)

\* Number of leading characters of s that belong to cs.
RECURSIVE SpanLen(_, _)
SpanLen(s, cs) ==
  IF s # <<>> /\ Head(s) \in cs THEN 1 + SpanLen(Tail(s), cs) ELSE 0

\* Number of trailing characters of s that belong to cs.
RECURSIVE SpanLenRight(_, _)
SpanLenRight(s, cs) ==
  IF s # <<>> /\ s[Len(s)] \in cs
  THEN 1 + SpanLenRight(Take(s, Len(s) - 1), cs)
  ELSE 0

LStrip(s) == Drop(s, SpanLen(s, Whitespace))

RStrip(s) == Take(s, Len(s) - SpanLenRight(s, Whitespace))

Strip(s) == RStrip(LStrip(s))

\* str.split(sep) for a one-character separator: "" splits to [""].
RECURSIVE Split(_, _)
Split(s, sep) ==
  LET n == SpanLen(s, {c \in {s[k] : k \in 1..Len(s)} : c # sep})
  IN IF n = Len(s) THEN <<s>>
     ELSE <<Take(s, n)>> \o Split(Drop(s, n + 1), sep)

\* sep.join(parts)
RECURSIVE Join(_, _)
Join(parts, sep) ==
  IF parts = <<>> THEN <<>>
  ELSE IF Len(parts) = 1 THEN parts[1]
  ELSE parts[1] \o <<sep>> \o Join(Tail(parts), sep)

\* str.replace(c, r) for a one-character c.
RECURSIVE Replace(_, _, _)
Replace(s, c, r) ==
  IF s = <<>> THEN <<>>
  ELSE (IF Head(s) = c THEN r ELSE <<Head(s)>>) \o Replace(Tail(s), c, r)

AMP == <<"&", "a", "m", "p", ";">>
GT == <<"&", "g", "t", ";">>
LT == <<"&", "l", "t", ";">>

\* The ampersand is replaced after the angle brackets, so the entities'
\* own ampersands are escaped again.
escapeAmpLast(data) ==
  Replace(Replace(Replace(data, ">", GT), "<", LT), "&", AMP)

\* xml.sax.saxutils.escape(data): "&" first, then ">" and "<".
escape(data) ==
  Replace(Replace(Replace(data, "&", AMP), ">", GT), "<", LT)

Min(S) == CHOOSE m \in S : \A n \in S : m <= n

\* textwrap.dedent(text): whitespace-only lines become empty, the margin is
\* the common leading run of blanks of the remaining non-empty lines (the
\* space is the only horizontal blank here, so the shortest one), and the
\* margin is removed from every line that starts with it.
dedent(text) ==
  LET raw == Split(text, NL)
      ls == [k \in 1..Len(raw) |->
               IF SpanLen(raw[k], {" "}) = Len(raw[k]) THEN <<>> ELSE raw[k]]
      indents == {SpanLen(ls[k], {" "}) : k \in {n \in 1..Len(ls) : ls[n] # <<>>}}
      margin == IF indents = {} THEN 0 ELSE Min(indents)
  IN Join([k \in 1..Len(ls) |->
             IF ls[k] = <<>> THEN <<>> ELSE Drop(ls[k], margin)], NL)

\* ------------------------------------------------------------ headings

ARGS_HEADING == <<"A", "r", "g", "s", ":">>
EXAMPLES_HEADING == <<"E", "x", "a", "m", "p", "l", "e", "s", ":">>
EXAMPLE_HEADING == <<"E", "x", "a", "m", "p", "l", "e", ":">>
OUTPUTS_HEADING == <<"O", "u", "t", "p", "u", "t", "s", ":">>

\* ------------------------------------------------------------ helpers

leading_whitespace(line) == Len(line) - Len(LStrip(line))

\* The field pattern r"^\s*-?\s*([NameChars]+):\s*(.*)" applied with
\* re.search to one line (no newline in it).  Every repetition is greedy and
\* the classes that follow one another are disjoint, so there is one way to
\* match.  matched is the truth of the match object, name is group(1) and
\* desc is group(2).
FieldMatch(line) ==
  LET a == Drop(line, SpanLen(line, Whitespace))
      b == IF a # <<>> /\ Head(a) = "-" THEN Tail(a) ELSE a
      c == Drop(b, SpanLen(b, Whitespace))
      n == SpanLen(c, NameChars)
      d == Drop(c, n)
  IN IF n > 0 /\ d # <<>> /\ Head(d) = ":"
     THEN [matched |-> TRUE, name |-> Take(c, n),
           desc |-> Drop(Tail(d), SpanLen(Tail(d), Whitespace))]
     ELSE [matched |-> FALSE, name |-> <<>>, desc |-> <<>>]

\* A dict is the sequence of its <<key, value>> items in insertion order.
Keys(d) == [k \in 1..Len(d) |-> d[k][1]]

HasKey(d, key) == \E k \in 1..Len(d) : d[k][1] = key

Get(d, key) == d[CHOOSE k \in 1..Len(d) : d[k][1] = key][2]

\* The first value stored under a key is kept.
DictSetFirstWins(d, key, value) ==
  IF HasKey(d, key) THEN d ELSE Append(d, <<key, value>>)

\* d[key] = value
DictSet(d, key, value) ==
  IF HasKey(d, key)
  THEN [k \in 1..Len(d) |-> IF d[k][1] = key THEN <<key, value>> ELSE d[k]]
  ELSE Append(d, <<key, value>>)

\* ------------------------------------------------------------ inputs

\* The lines docstrings are made of.  Headings at two indentations, blank
\* and whitespace-only lines, field lines (indented, bulleted, at column 0,
\* with trailing blanks and with characters to escape) and plain text.
L_Args == ARGS_HEADING
L_ArgsIn == <<" ">> \o ARGS_HEADING
L_Examples == EXAMPLES_HEADING
L_ExampleIn == <<" ">> \o EXAMPLE_HEADING
L_Outputs == OUTPUTS_HEADING
L_Empty == <<>>
L_Blank == <<" ", " ", " ">>
L_FieldA == <<" ", " ", " ", " ", "a", ":", " ", "x", " ">>
L_FieldBullet == <<" ", " ", "-", " ", "b", ":", " ", "<", "&", "\"", ">">>
L_FieldCol0 == <<"a", ":", " ", "'", "y">>
L_Text == <<" ", " ", " ", " ", " ", " ", "t", "&", " ">>

Vocab ==
  {L_Args, L_ArgsIn, L_Examples, L_ExampleIn, L_Outputs, L_Empty, L_Blank,
   L_FieldA, L_FieldBullet, L_FieldCol0, L_Text}

\* One section of each kind, each with one line of content.
Sections ==
  <<<<L_Examples, L_Text>>, <<L_Args, L_FieldA>>, <<L_Outputs, L_FieldBullet>>>>

\* The three sections in each of their six orders.
SectionOrders ==
  {Sections[f[1]] \o Sections[f[2]] \o Sections[f[3]] :
     f \in {g \in [1..3 -> 1..3] : \A a, b \in 1..3 : a # b => g[a] # g[b]}}

\* Every docstring of at most MaxLines lines over Vocab, and the six
\* docstrings of three sections.
Docstrings ==
  {Join(ls, NL) :
     ls \in UNION {[1..m -> Vocab] : m \in 0..MaxLines} \cup SectionOrders}

\* ------------------------------------------------------------ state

VARIABLES
  doc,              \* parse_docstring: the argument
  lines,            \* parse_docstring: doc.split("\n")
  i,                \* parse_docstring: the cursor
  docs,             \* parse_docstring: lines kept for the description
  examples,         \* parse_docstring: lines collected by Example sections
  attr_docs,        \* parse_docstring: dict filled by Args sections
  output_docs,      \* parse_docstring: dict filled by Outputs sections
  pc,               \* the function whose loop is running, or "done"
  target,           \* _parse_attribute_docs: which dict its attr_docs is
  index,            \* section scanner: the heading's index
  si,               \* section scanner: its own cursor i
  heading_ws,       \* section scanner: args_leading_ws / heading_leading_ws
  attr,             \* _parse_attribute_docs: current name, <<>> for None
  desc,             \* _parse_attribute_docs: current description
  result,           \* the ExtractedDocs returned
  pass,             \* 1 for the call on the input, 2 for the call on its doc
  first,            \* the argument of the first call
  renames,          \* validate_renames: the argument, a dict
  bzl_files,        \* validate_renames: the argument, a list
  format,           \* validate_renames: the argument
  file_extension,   \* validate_renames: 'html' or 'md'
  output_files,     \* validate_renames: the set of names taken
  n,                \* validate_renames: how many of bzl_files the loop passed
  vpc               \* validate_renames: "check", "loop", "raised", "returned"

\* The state of parse_docstring and its scanners.
pvars ==
  <<doc, lines, i, docs, examples, attr_docs, output_docs, pc, target, index,
    si, heading_ws, attr, desc, result, pass, first>>

\* The state of validate_renames.
vvars ==
  <<renames, bzl_files, format, file_extension, output_files, n, vpc>>

vars == <<pvars, vvars>>

\* validate_renames is not running.
VIdle ==
  /\ renames = <<>>
  /\ bzl_files = <<>>
  /\ format = "html"
  /\ file_extension = <<>>
  /\ output_files = {}
  /\ n = 0
  /\ vpc = "idle"

NoResult ==
  [doc |-> <<>>, attr_docs |-> <<>>, example_doc |-> <<>>, output_docs |-> <<>>]

\* parse_docstring called on d: the state at the head of its loop.
Call(d) ==
  /\ doc' = d
  /\ lines' = Split(d, NL)
  /\ i' = 0
  /\ docs' = <<>>
  /\ examples' = <<>>
  /\ attr_docs' = <<>>
  /\ output_docs' = <<>>
  /\ pc' = "parse_docstring"
  /\ target' = "none"
  /\ index' = 0
  /\ si' = 0
  /\ heading_ws' = 0
  /\ attr' = <<>>
  /\ desc' = <<>>
  /\ result' = NoResult

Init ==
  \E d \in Docstrings :
    /\ doc = d
    /\ lines = Split(d, NL)
    /\ i = 0
    /\ docs = <<>>
    /\ examples = <<>>
    /\ attr_docs = <<>>
    /\ output_docs = <<>>
    /\ pc = "parse_docstring"
    /\ target = "none"
    /\ index = 0
    /\ si = 0
    /\ heading_ws = 0
    /\ attr = <<>>
    /\ desc = <<>>
    /\ result = NoResult
    /\ pass = 1
    /\ first = d
    /\ VIdle

\* ------------------------------------------------------------ parse_docstring

\* The line is compared without being trimmed.
IsArgsHeadingUntrimmed(line) == line = ARGS_HEADING

IsArgsHeading(line) == Strip(line) = ARGS_HEADING

IsExamplesHeading(line) ==
  Strip(line) = EXAMPLES_HEADING \/ Strip(line) = EXAMPLE_HEADING

IsOutputsHeading(line) == Strip(line) = OUTPUTS_HEADING

IsHeading(line) ==
  IsArgsHeading(line) \/ IsExamplesHeading(line) \/ IsOutputsHeading(line)

\* The scanner's cursor starts on the heading instead of after it.
EnterSectionAtHeading(scanner, dict) ==
  /\ pc' = scanner
  /\ target' = dict
  /\ index' = i
  /\ heading_ws' = leading_whitespace(lines[i + 1])
  /\ si' = i
  /\ attr' = <<>>
  /\ desc' = <<>>
  /\ UNCHANGED <<doc, lines, i, docs, examples, attr_docs, output_docs,
                 result, pass, first, vvars>>

\* A section scanner is entered at heading index i: its locals.
EnterSection(scanner, dict) ==
  /\ pc' = scanner
  /\ target' = dict
  /\ index' = i
  /\ heading_ws' = leading_whitespace(lines[i + 1])
  /\ si' = i + 1
  /\ attr' = <<>>
  /\ desc' = <<>>
  /\ UNCHANGED <<doc, lines, i, docs, examples, attr_docs, output_docs,
                 result, pass,
                 first, vvars>>

\* if line.strip() == ARGS_HEADING: i = _parse_attribute_docs(attr_docs, ...)
ArgsHeading ==
  /\ pc = "parse_docstring"
  /\ i < Len(lines)
  /\ IsArgsHeading(lines[i + 1])
  /\ EnterSection("_parse_attribute_docs", "attr_docs")

\* elif line.strip() == EXAMPLES_HEADING or line.strip() == EXAMPLE_HEADING
ExamplesHeading ==
  /\ pc = "parse_docstring"
  /\ i < Len(lines)
  /\ ~IsArgsHeading(lines[i + 1])
  /\ IsExamplesHeading(lines[i + 1])
  /\ EnterSection("_parse_example_docs", "examples")

\* The Outputs section is scanned into attr_docs.
OutputsHeadingIntoAttrs ==
  /\ pc = "parse_docstring"
  /\ i < Len(lines)
  /\ ~IsArgsHeading(lines[i + 1])
  /\ ~IsExamplesHeading(lines[i + 1])
  /\ IsOutputsHeading(lines[i + 1])
  /\ EnterSection("_parse_attribute_docs", "attr_docs")

\* elif line.strip() == OUTPUTS_HEADING
OutputsHeading ==
  /\ pc = "parse_docstring"
  /\ i < Len(lines)
  /\ ~IsArgsHeading(lines[i + 1])
  /\ ~IsExamplesHeading(lines[i + 1])
  /\ IsOutputsHeading(lines[i + 1])
  /\ EnterSection("_parse_attribute_docs", "output_docs")

\* The line is kept without its indentation.
AppendDocStripped ==
  /\ pc = "parse_docstring"
  /\ i < Len(lines)
  /\ ~IsHeading(lines[i + 1])
  /\ docs' = Append(docs, Strip(lines[i + 1]))
  /\ i' = i + 1
  /\ UNCHANGED <<doc, lines, examples, attr_docs, output_docs, pc, target,
                 index, si, heading_ws, attr, desc, result, pass, first,
                 vvars>>

\* docs.append(line); i += 1
AppendDoc ==
  /\ pc = "parse_docstring"
  /\ i < Len(lines)
  /\ ~IsHeading(lines[i + 1])
  /\ docs' = Append(docs, lines[i + 1])
  /\ i' = i + 1
  /\ UNCHANGED <<doc, lines, examples, attr_docs, output_docs, pc, target,
                 index, si, heading_ws, attr, desc, result, pass,
                 first, vvars>>

\* The loop is over: the description and the example text are put together.
Return ==
  /\ pc = "parse_docstring"
  /\ i >= Len(lines)
  /\ result' = [doc |-> Strip(Join(docs, NL)),
                attr_docs |-> attr_docs,
                example_doc |-> Strip(dedent(Join(examples, NL))),
                output_docs |-> output_docs]
  /\ pc' = "done"
  /\ UNCHANGED <<doc, lines, i, docs, examples, attr_docs, output_docs,
                 target, index, si, heading_ws, attr, desc, pass,
                 first, vvars>>

\* ------------------------------------------------------------ section scanners

\* A blank line ends the section as well.
SectionEndAtBlank(line, ws) ==
  Strip(line) = <<>> \/ leading_whitespace(line) = ws

\* if line.strip() and leading_whitespace(line) == args_leading_ws: break
SectionEnd(line, ws) ==
  Strip(line) # <<>> /\ leading_whitespace(line) = ws

\* The dict _parse_attribute_docs was handed, after d[key] = value.
Store(key, value) ==
  /\ attr_docs' =
       IF target = "attr_docs" THEN DictSet(attr_docs, key, value)
       ELSE attr_docs
  /\ output_docs' =
       IF target = "output_docs" THEN DictSet(output_docs, key, value)
       ELSE output_docs

\* while i < len(lines) with its break: whether the scanner's loop is left.
LoopEnds ==
  IF si < Len(lines) THEN SectionEnd(lines[si + 1], heading_ws) ELSE TRUE

InAttrLoop ==
  /\ pc = "_parse_attribute_docs"
  /\ ~LoopEnds

\* if match: a new attribute; the open one, if any, is stored.
AttrMatch ==
  /\ InAttrLoop
  /\ FieldMatch(lines[si + 1]).matched
  /\ IF attr # <<>> THEN Store(attr, escape(desc))
     ELSE UNCHANGED <<attr_docs, output_docs>>
  /\ attr' = FieldMatch(lines[si + 1]).name
  /\ desc' = FieldMatch(lines[si + 1]).desc
  /\ si' = si + 1
  /\ UNCHANGED <<doc, lines, i, docs, examples, pc, target, index,
                 heading_ws, result, pass,
                 first, vvars>>

\* elif attr: desc = desc + "\n" + line.strip()
AttrMerge ==
  /\ InAttrLoop
  /\ ~FieldMatch(lines[si + 1]).matched
  /\ attr # <<>>
  /\ desc' = desc \o <<NL>> \o Strip(lines[si + 1])
  /\ si' = si + 1
  /\ UNCHANGED <<doc, lines, i, docs, examples, attr_docs, output_docs, pc,
                 target, index, heading_ws, attr, result, pass,
                 first, vvars>>

\* Neither a match nor an open attribute: the line is passed over.
AttrSkip ==
  /\ InAttrLoop
  /\ ~FieldMatch(lines[si + 1]).matched
  /\ attr = <<>>
  /\ si' = si + 1
  /\ UNCHANGED <<doc, lines, i, docs, examples, attr_docs, output_docs, pc,
                 target, index, heading_ws, attr, desc, result, pass,
                 first, vvars>>

\* The loop ends (break, or no line left): the open attribute is stored,
\* stripped, and the scanner's cursor is returned to parse_docstring.
AttrReturn ==
  /\ pc = "_parse_attribute_docs"
  /\ LoopEnds
  /\ IF attr # <<>> THEN Store(attr, Strip(escape(desc)))
     ELSE UNCHANGED <<attr_docs, output_docs>>
  /\ i' = si
  /\ pc' = "parse_docstring"
  /\ UNCHANGED <<doc, lines, docs, examples, target, index, si, heading_ws,
                 attr, desc, result, pass,
                 first, vvars>>

\* examples.append(line); i += 1
ExampleAppend ==
  /\ pc = "_parse_example_docs"
  /\ ~LoopEnds
  /\ examples' = Append(examples, lines[si + 1])
  /\ si' = si + 1
  /\ UNCHANGED <<doc, lines, i, docs, attr_docs, output_docs, pc, target,
                 index, heading_ws, attr, desc, result, pass,
                 first, vvars>>

\* The loop ends (break, or no line left): return i
ExampleReturn ==
  /\ pc = "_parse_example_docs"
  /\ LoopEnds
  /\ i' = si
  /\ pc' = "parse_docstring"
  /\ UNCHANGED <<doc, lines, docs, examples, attr_docs, output_docs, target,
                 index, si, heading_ws, attr, desc, result, pass,
                 first, vvars>>

Next ==
  \/ ArgsHeading
  \/ ExamplesHeading
  \/ OutputsHeading
  \/ AppendDoc
  \/ Return
  \/ AttrMatch
  \/ AttrMerge
  \/ AttrSkip
  \/ AttrReturn
  \/ ExampleAppend
  \/ ExampleReturn

Spec == Init /\ [][Next]_vars

\* parse_docstring is called again, on the description it returned.
Reparse ==
  /\ pc = "done"
  /\ pass = 1
  /\ Call(result.doc)
  /\ pass' = 2
  /\ UNCHANGED <<first, vvars>>

NextReparse == Next \/ Reparse

SpecReparse == Init /\ [][NextReparse]_vars

\* ------------------------------------------------------------ validate_renames

\* Index of the last occurrence of character c in s, 0 when there is none.
LastIndexOf(s, c) ==
  LET at == {k \in 1..Len(s) : s[k] = c}
  IN IF at = {} THEN 0 ELSE CHOOSE k \in at : \A m \in at : m <= k

\* os.path.basename(path): what follows the last "/".
basename(path) == Drop(path, LastIndexOf(path, "/"))

\* head, sep, tail = file_path.rpartition('.'); head + sep + new_ext, or the
\* path itself when it has no '.'.
replace_extension(file_path, new_ext) ==
  LET dot == LastIndexOf(file_path, ".")
  IN IF dot = 0 THEN file_path ELSE Take(file_path, dot) \o new_ext

HTML == <<"h", "t", "m", "l">>
MD == <<"m", "d">>

\* The extension is put on the whole path, directories included.
OutputFileNoBasename(bzl_file) ==
  IF bzl_file \in DOMAIN renames THEN renames[bzl_file]
  ELSE replace_extension(bzl_file, file_extension)

\* output_file for one entry of bzl_files (the if/else of the loop body).
OutputFile(bzl_file) ==
  IF bzl_file \in DOMAIN renames THEN renames[bzl_file]
  ELSE replace_extension(basename(bzl_file), file_extension)

\* The paths of input files: in a directory, bare, without an extension,
\* with a dot in the directory only, with two dots.
P_DirA == <<"d", "/", "a", ".", "b", "z", "l">>
P_A == <<"a", ".", "b", "z", "l">>
P_DotDirB == <<"d", ".", "x", "/", "b">>
P_B == <<"b">>
P_TwoDots == <<"a", ".", "m", "d", ".", "b", "z", "l">>

Paths == {P_DirA, P_A, P_DotDirB, P_B, P_TwoDots}

\* The output names a rename map gives.
O_AMd == <<"a", ".", "m", "d">>
O_B == <<"b">>

OutputNames == {O_AMd, O_B}

Formats == {"html", "markdown", "text"}

InitValidate ==
  /\ doc = <<>>
  /\ lines = <<>>
  /\ i = 0
  /\ docs = <<>>
  /\ examples = <<>>
  /\ attr_docs = <<>>
  /\ output_docs = <<>>
  /\ pc = "idle"
  /\ target = "none"
  /\ index = 0
  /\ si = 0
  /\ heading_ws = 0
  /\ attr = <<>>
  /\ desc = <<>>
  /\ result = NoResult
  /\ pass = 1
  /\ first = <<>>
  /\ renames \in UNION {[D -> OutputNames] : D \in SUBSET Paths}
  /\ bzl_files \in UNION {[1..m -> Paths] : m \in 0..MaxFiles}
  /\ format \in Formats
  /\ file_extension = <<>>
  /\ output_files = {}
  /\ n = 0
  /\ vpc = "check"

\* if format != 'html' and format != 'markdown': raise InputError
RaiseInvalidFormat ==
  /\ vpc = "check"
  /\ format # "html" /\ format # "markdown"
  /\ vpc' = "raised"
  /\ UNCHANGED <<renames, bzl_files, format, file_extension, output_files, n,
                 pvars>>

\* file_extension = 'html' if format == 'html' else 'md'; output_files = set()
ChooseExtension ==
  /\ vpc = "check"
  /\ ~(format # "html" /\ format # "markdown")
  /\ file_extension' = IF format = "html" THEN HTML ELSE MD
  /\ output_files' = {}
  /\ n' = 0
  /\ vpc' = "loop"
  /\ UNCHANGED <<renames, bzl_files, format, pvars>>

\* if output_file in output_files: raise InputError
RaiseConflict ==
  /\ vpc = "loop"
  /\ n < Len(bzl_files)
  /\ OutputFile(bzl_files[n + 1]) \in output_files
  /\ vpc' = "raised"
  /\ UNCHANGED <<renames, bzl_files, format, file_extension, output_files, n,
                 pvars>>

\* output_files.add(output_file)
AddOutputFile ==
  /\ vpc = "loop"
  /\ n < Len(bzl_files)
  /\ OutputFile(bzl_files[n + 1]) \notin output_files
  /\ output_files' = output_files \cup {OutputFile(bzl_files[n + 1])}
  /\ n' = n + 1
  /\ UNCHANGED <<renames, bzl_files, format, file_extension, vpc, pvars>>

\* The loop is over: validate_renames returns.
ValidateReturn ==
  /\ vpc = "loop"
  /\ n >= Len(bzl_files)
  /\ vpc' = "returned"
  /\ UNCHANGED <<renames, bzl_files, format, file_extension, output_files, n,
                 pvars>>

NextValidate ==
  \/ RaiseInvalidFormat
  \/ ChooseExtension
  \/ RaiseConflict
  \/ AddOutputFile
  \/ ValidateReturn

SpecValidate == InitValidate /\ [][NextValidate]_vars

\* ------------------------------------------------------------ properties

Reserved ==
  {ARGS_HEADING, EXAMPLES_HEADING, EXAMPLE_HEADING, OUTPUTS_HEADING}

\* No line of the string d has a reserved heading as its trimmed content.
NoHeadingIn(d) ==
  \A k \in 1..Len(Split(d, NL)) : Strip(Split(d, NL)[k]) \notin Reserved

Scanners == {"_parse_attribute_docs", "_parse_example_docs"}

\* C1: when no line of the input, trimmed, is "Args:", "Examples:",
\* "Example:" or "Outputs:", the returned doc is the input stripped and
\* attr_docs, example_doc and output_docs are empty.
C1_NoHeadingIsProse ==
  (pc = "done" /\ NoHeadingIn(doc)) =>
    result = [doc |-> Strip(doc), attr_docs |-> <<>>,
              example_doc |-> <<>>, output_docs |-> <<>>]

\* A "Foo:"-like line followed by an indented name: description line has
\* been parsed and is returned as the description.
C1_Witness ==
  /\ pc = "done"
  /\ lines = <<L_Empty, L_FieldCol0, L_FieldA, L_Blank>>
  /\ result.doc = L_FieldCol0 \o <<NL>> \o RStrip(L_FieldA)
  /\ result.attr_docs = <<>>

\* What strictly decreases with every step of a call: twice the number of
\* lines the running loop has yet to pass, plus what is left to do at the
\* current line.  p is pc, k the driver's cursor and s the scanner's.
Measure(p, k, s) ==
  CASE p = "parse_docstring" -> 2 * (Len(lines) - k) + 1
    [] p \in Scanners -> 2 * (Len(lines) - s) + 2
    [] OTHER -> 0

\* The parser has returned or is in one of its loops with the loop's cursor
\* within the list, so that every lines[...] the loop reads exists.  p is
\* pc, k the driver's cursor, s the scanner's and x the heading's index.
InRange(p, k, s, x) ==
  \/ p = "done"
  \/ p = "parse_docstring" /\ 0 <= k /\ k <= Len(lines)
  \/ p \in Scanners /\ 0 <= x /\ x < s /\ s <= Len(lines)

\* C2: parse_docstring is total and terminates.  From the call on, the
\* parser is always in one of its loops with the cursor in range (each
\* loop's body is an exhaustive if/elif/else, so such a state has a step and
\* reads no line that is not there) or has returned; every step strictly
\* lowers a measure that stays a natural number; and every hand-over of a
\* scanner's cursor to the driver (and every other step back to the
\* driver's loop) puts the driver's cursor i strictly beyond where it was
\* and beyond the heading's index, at most at len(lines).
C2_TotalAndAdvancing ==
  /\ InRange(pc, i, si, index)
  /\ [][/\ InRange(pc', i', si', index')
        /\ Measure(pc', i', si') < Measure(pc, i, si)
        /\ Measure(pc', i', si') >= 0
        /\ pc' = "parse_docstring" => (i < i' /\ i' <= Len(lines))
        /\ (pc \in Scanners /\ pc' = "parse_docstring") =>
             (index < i' /\ i' <= Len(lines))]_vars

\* A docstring with a repeated, empty and trailing Args heading has been
\* parsed to the end.
C2_Witness ==
  /\ pc = "done"
  /\ lines = <<L_Args, L_Text, L_Args, L_Args>>
  /\ i = Len(lines)

\* Where the section opened by the heading at index idx of ls ends: the
\* first later non-blank line indented no deeper than the heading, or the
\* end of ls.
DedentEnd(ls, idx) ==
  LET h == leading_whitespace(ls[idx + 1])
      ends == {k \in (idx + 1)..(Len(ls) - 1) :
                 Strip(ls[k + 1]) # <<>> /\ leading_whitespace(ls[k + 1]) <= h}
  IN IF ends = {} THEN Len(ls) ELSE Min(ends)

\* C3: a section ends at the first following non-blank line whose
\* indentation is less than or equal to the heading's; the scanner returns
\* that line's index and the driver resumes there.
C3_SectionEndsAtDedent ==
  [][(pc \in Scanners /\ pc' = "parse_docstring") =>
       i' = DedentEnd(lines, index)]_vars

\* The dict the running _parse_attribute_docs fills, by its heading.
SectionDict ==
  IF Strip(lines[index + 1]) = ARGS_HEADING THEN attr_docs ELSE output_docs

\* This step of _parse_attribute_docs passes a line that starts a field
\* while a field is open.
ClosesByField ==
  /\ pc = "_parse_attribute_docs"
  /\ pc' = pc
  /\ attr # <<>>
  /\ FieldMatch(lines[si + 1]).matched

\* This step of _parse_attribute_docs leaves the section with a field open.
ClosesAtEnd ==
  /\ pc = "_parse_attribute_docs"
  /\ pc' = "parse_docstring"
  /\ attr # <<>>

X_NL_NL_T ==
  <<"x", " ", NL, NL, "t">> \o AMP

LT_AMP_QUOT_GT == LT \o AMP \o <<"\"">> \o GT

HeadingKind(line) ==
  CASE Strip(line) = ARGS_HEADING -> "args"
    [] Strip(line) \in {EXAMPLES_HEADING, EXAMPLE_HEADING} -> "examples"
    [] Strip(line) = OUTPUTS_HEADING -> "outputs"
    [] OTHER -> "doc"

\* All heading lines of ls have the same indentation.
SameLevelHeadings(ls) ==
  \A p, q \in 1..Len(ls) :
    (HeadingKind(ls[p]) # "doc" /\ HeadingKind(ls[q]) # "doc") =>
      leading_whitespace(ls[p]) = leading_whitespace(ls[q])

\* The indentation of ls's headings (0 when it has none).
HeadingLevel(ls) ==
  LET hs == {p \in 1..Len(ls) : HeadingKind(ls[p]) # "doc"}
  IN IF hs = {} THEN 0 ELSE leading_whitespace(ls[CHOOSE p \in hs : TRUE])

\* Line k of ls is non-blank and at indentation h.
AtLevel(ls, k, h) ==
  Strip(ls[k]) # <<>> /\ leading_whitespace(ls[k]) = h

\* Where line k of ls belongs when all headings are at indentation h: a
\* line at that level is a heading or description; any other line belongs
\* to what the nearest line at that level before it opens.
Owner(ls, k, h) ==
  LET before == {p \in 1..(k - 1) : AtLevel(ls, p, h)}
  IN IF AtLevel(ls, k, h)
     THEN (IF HeadingKind(ls[k]) # "doc" THEN "heading" ELSE "doc")
     ELSE IF before = {} THEN "doc"
     ELSE HeadingKind(ls[CHOOSE p \in before : \A q \in before : q <= p])

\* The lines of ls whose owner, in owners, is kind, in order.
RECURSIVE Owned(_, _, _, _)
Owned(ls, owners, k, kind) ==
  IF k = 0 THEN <<>>
  ELSE Owned(ls, owners, k - 1, kind) \o
       (IF owners[k] = kind THEN <<ls[k]>> ELSE <<>>)

\* The names of the field lines among ls.
FieldNames(ls) ==
  {FieldMatch(ls[k]).name : k \in {m \in 1..Len(ls) : FieldMatch(ls[m]).matched}}

KeySet(d) == {d[k][1] : k \in 1..Len(d)}

\* What parse_docstring has collected when it returns r, for headings at one
\* level.
CollectedBySection(r) ==
  SameLevelHeadings(lines) =>
    LET h == HeadingLevel(lines)
        owners == [k \in 1..Len(lines) |-> Owner(lines, k, h)]
        ownDoc == Owned(lines, owners, Len(lines), "doc")
        ownExamples == Owned(lines, owners, Len(lines), "examples")
    IN /\ docs = ownDoc
       /\ examples = ownExamples
       /\ r.doc = Strip(Join(ownDoc, NL))
       /\ r.example_doc = Strip(dedent(Join(ownExamples, NL)))
       /\ KeySet(r.attr_docs) =
            FieldNames(Owned(lines, owners, Len(lines), "args"))
       /\ KeySet(r.output_docs) =
            FieldNames(Owned(lines, owners, Len(lines), "outputs"))

\* C5: sections are collected independently.  While the section of an
\* Examples heading is scanned only examples changes, of an Args heading
\* only attr_docs, of an Outputs heading only output_docs; a heading line
\* changes none of the four; docs grows only by a line the driver itself
\* passes that is no heading.  With all headings at one indentation the
\* result holds, per kind, exactly the lines between a heading of the kind
\* and the next non-blank line at that indentation.
C5_SectionsIndependent ==
  [][/\ (pc \in Scanners /\ HeadingKind(lines[index + 1]) = "examples") =>
          UNCHANGED <<docs, attr_docs, output_docs>>
     /\ (pc \in Scanners /\ HeadingKind(lines[index + 1]) = "args") =>
          UNCHANGED <<docs, examples, output_docs>>
     /\ (pc \in Scanners /\ HeadingKind(lines[index + 1]) = "outputs") =>
          UNCHANGED <<docs, examples, attr_docs>>
     /\ (pc = "parse_docstring" /\ i < Len(lines) /\
         HeadingKind(lines[i + 1]) # "doc") =>
          UNCHANGED <<docs, examples, attr_docs, output_docs>>
     /\ docs' # docs =>
          (pc = "parse_docstring" /\ HeadingKind(lines[i + 1]) = "doc" /\
           docs' = Append(docs, lines[i + 1]))
     /\ pc' = "done" => CollectedBySection(result')]_vars

\* Outputs, Examples and Args sections, in that order and each with one
\* line, have been parsed.
C5_Witness ==
  /\ pc = "done"
  /\ lines = <<L_Outputs, L_FieldBullet, L_Examples, L_Text, L_Args, L_FieldA>>
  /\ result.example_doc = <<"t">> \o <<"&">>
  /\ result.attr_docs = <<<<<<"a">>, <<"x">>>>>>
  /\ result.output_docs = <<<<<<"b">>, LT_AMP_QUOT_GT>>>>
  /\ result.doc = <<>>

\* The text s with "&", "<" and ">" each replaced by its entity and every
\* other character, the quotes among them, kept.
RECURSIVE EscapedForm(_)
EscapedForm(s) ==
  IF s = <<>> THEN <<>>
  ELSE (CASE Head(s) = "&" -> AMP
          [] Head(s) = "<" -> LT
          [] Head(s) = ">" -> GT
          [] OTHER -> <<Head(s)>>) \o EscapedForm(Tail(s))

QUOT == <<"&", "q", "u", "o", "t", ";">>
APOS == <<"&", "a", "p", "o", "s", ";">>

\* The text s with "&", "<", ">" and both quote characters each replaced by
\* an entity.
RECURSIVE QuoteEscapedForm(_)
QuoteEscapedForm(s) ==
  IF s = <<>> THEN <<>>
  ELSE (CASE Head(s) = "&" -> AMP
          [] Head(s) = "<" -> LT
          [] Head(s) = ">" -> GT
          [] Head(s) = "\"" -> QUOT
          [] Head(s) = "'" -> APOS
          [] OTHER -> <<Head(s)>>) \o QuoteEscapedForm(Tail(s))

\* C6 as stated: the value stored for a field is its accumulated text with
\* "&", "<", ">" and the double and single quote replaced by entities,
\* whether a following field line or the section's end closes the field.
C6_QuotesEscaped ==
  [][/\ ClosesByField =>
          (HasKey(SectionDict', attr) /\
           Get(SectionDict', attr) = QuoteEscapedForm(desc))
     /\ ClosesAtEnd =>
          (HasKey(SectionDict', attr) /\
           Get(SectionDict', attr) = Strip(QuoteEscapedForm(desc)))]_vars

\* C6 amended: the value stored for a field is its accumulated text with
\* "&", "<" and ">" replaced by "&amp;", "&lt;" and "&gt;" and the quote
\* characters unchanged, whether a following field line closes the field (the
\* value stored as it is) or the section's end does (the value stored
\* stripped).
C6_MarkupEscaped ==
  [][/\ ClosesByField =>
          (HasKey(SectionDict', attr) /\
           Get(SectionDict', attr) = EscapedForm(desc))
     /\ ClosesAtEnd =>
          (HasKey(SectionDict', attr) /\
           Get(SectionDict', attr) = Strip(EscapedForm(desc)))]_vars

\* A field whose text holds "<", "&", ">" and a double quote has been
\* closed by a following field line and stored.
C6_Witness ==
  /\ pc = "_parse_attribute_docs"
  /\ lines = <<L_Args, L_FieldBullet, L_FieldA>>
  /\ output_docs = <<>>
  /\ attr_docs = <<<<<<"b">>, LT_AMP_QUOT_GT>>>>
  /\ attr = <<"a">>
  /\ desc = <<"x", " ">>

\* The keys of d are pairwise different.
KeysDistinct(d) ==
  \A p, q \in 1..Len(d) : d[p][1] = d[q][1] => p = q

\* e is d after d[key] = value: the key's value is the new one, every other
\* item is as it was, and a key not in d comes last.
IsUpdate(d, e, key, value) ==
  /\ HasKey(e, key) /\ Get(e, key) = value
  /\ Keys(e) = (IF HasKey(d, key) THEN Keys(d) ELSE Append(Keys(d), key))
  /\ \A k \in 1..Len(d) : d[k][1] # key => e[k] = d[k]

\* C7: attr_docs and output_docs hold one item per name, in the order the
\* names first appeared, with the description of the name's last field.
\* Each field that is closed is stored over the earlier value of its name
\* (or after all earlier names), nothing else changes either dict (entering
\* a later section with the same heading included), and the keys stay
\* pairwise different.
C7_LastWins ==
  [][/\ ClosesByField =>
          IsUpdate(SectionDict, SectionDict', attr, escape(desc))
     /\ ClosesAtEnd =>
          IsUpdate(SectionDict, SectionDict', attr, Strip(escape(desc)))
     /\ ~(ClosesByField \/ ClosesAtEnd) => UNCHANGED <<attr_docs, output_docs>>
     /\ KeysDistinct(attr_docs') /\ KeysDistinct(output_docs')
     /\ (pc' = "done" /\
         lines = <<L_ArgsIn, L_FieldA, L_FieldBullet, L_FieldCol0>>) =>
          attr_docs' = <<<<<<"a">>, <<"'", "y">>>>, <<<<"b">>, LT_AMP_QUOT_GT>>>>
     /\ (pc' = "done" /\
         lines = <<L_Args, L_FieldA, L_Text, L_FieldA>>) =>
          attr_docs' = <<<<<<"a">>, <<"x">>>>>>
     /\ (pc' = "done" /\
         lines = <<L_Args, L_FieldBullet, L_Args, L_FieldA>>) =>
          attr_docs' = <<<<<<"b">>, LT_AMP_QUOT_GT>>, <<<<"a">>, <<"x">>>>>>]_vars

\* The name a has been given twice in one section, around the name b, and
\* holds its last description in the first place.
C7_Witness ==
  /\ pc = "done"
  /\ lines = <<L_ArgsIn, L_FieldA, L_FieldBullet, L_FieldCol0>>
  /\ Keys(result.attr_docs) = <<<<"a">>, <<"b">>>>
  /\ Get(result.attr_docs, <<"a">>) = <<"'", "y">>

\* C9: the doc returned has no line whose trimmed content is a reserved
\* heading, and parse_docstring on it returns it as doc, with attr_docs,
\* example_doc and output_docs empty.
C9_ReparseIsNoOp ==
  /\ pc = "done" => NoHeadingIn(result.doc)
  /\ (pc = "done" /\ pass = 2) =>
       result = [doc |-> doc, attr_docs |-> <<>>,
                 example_doc |-> <<>>, output_docs |-> <<>>]

\* The description of a docstring with text before and after an Args
\* section has been parsed again.
C9_Witness ==
  /\ pc = "done"
  /\ pass = 2
  /\ first = Join(<<L_Text, L_Args, L_FieldA, L_FieldCol0>>, NL)
  /\ doc = <<"t", "&", " ", NL>> \o L_FieldCol0
  /\ result.doc = doc

\* C10: no description stored in attr_docs or output_docs has leading or
\* trailing whitespace.
C10_ValuesStripped ==
  /\ \A k \in 1..Len(attr_docs) : Strip(attr_docs[k][2]) = attr_docs[k][2]
  /\ \A k \in 1..Len(output_docs) :
       Strip(output_docs[k][2]) = output_docs[k][2]

\* What follows the last "/" of path.
RECURSIVE AfterLastSlash(_)
AfterLastSlash(path) ==
  LET m == SpanLen(path, {c \in {path[k] : k \in 1..Len(path)} : c # "/"})
  IN IF m = Len(path) THEN path ELSE AfterLastSlash(Drop(path, m + 1))

\* name with what follows its last "." replaced by ext; name itself when it
\* has no ".".
ExtensionReplaced(name, ext) ==
  LET tail == SpanLenRight(name, {c \in {name[k] : k \in 1..Len(name)} : c # "."})
  IN IF tail = Len(name) THEN name ELSE Take(name, Len(name) - tail) \o ext

\* The output file name entry k of bzl_files resolves to; of renames only
\* the entries for files of bzl_files are read.
Resolved(k) ==
  LET listed == {bzl_files[q] : q \in 1..Len(bzl_files)} \cap DOMAIN renames
      used == [e \in listed |-> renames[e]]
  IN IF bzl_files[k] \in DOMAIN used THEN used[bzl_files[k]]
     ELSE ExtensionReplaced(AfterLastSlash(bzl_files[k]),
                            IF format = "html" THEN HTML ELSE MD)

\* When validate_renames is to raise InputError.
MustRaise ==
  \/ format \notin {"html", "markdown"}
  \/ \E p, q \in 1..Len(bzl_files) : p < q /\ Resolved(p) = Resolved(q)

\* C8: validate_renames raises InputError exactly when the format is
\* neither 'html' nor 'markdown' or two entries of bzl_files resolve to the
\* same output file name, and returns otherwise; the names accepted so far
\* are those of the entries passed, all different; rename entries for
\* files not in bzl_files are not read.
C8_RaisesOnConflict ==
  /\ vpc = "raised" => MustRaise
  /\ vpc = "returned" => ~MustRaise
  /\ vpc \in {"loop", "returned"} =>
       /\ output_files = {Resolved(k) : k \in 1..n}
       /\ Cardinality(output_files) = n

\* A file in a directory and a bare file of the same name conflict, with a
\* rename entry for a file that is not listed.
C8_Witness ==
  /\ vpc = "raised"
  /\ format = "markdown"
  /\ bzl_files = <<P_DirA, P_A>>
  /\ DOMAIN renames = {P_B}
  /\ output_files = {O_AMd}

====
